---- MODULE Spec2Model ----
(***************************************************************************)
(* esbuild-bundle-size-diff: two esbuild metafiles are read, the output    *)
(* sizes are grouped per entrypoint, a table of differences is built and   *)
(* either printed (CLI) or posted as a pull-request comment (GitHub        *)
(* Actions).  Source: src/unnamed/part_000.                                *)
(*                                                                         *)
(* Numbers.  JavaScript numbers are modelled by exact integers and exact   *)
(* rationals; every size of the model is far below 2^31, so no operation   *)
(* of the model leaves the range in which the double arithmetic of the     *)
(* source is exact on integers.  NaN, Infinity and -Infinity are explicit  *)
(* outcomes.  A formatted number is kept in hundredths.                    *)
(***************************************************************************)
EXTENDS Integers, Sequences, FiniteSets, TLC

\* ------------------------------------------------------------ bounds
\* Processes (runs of the program) started on one pull request.
MaxRuns == 2
\* Comments the pull request holds before the first run.
MaxExisting == 2
\* Largest byte size of one output file in the enumerated metafiles.
MaxBytes == 2

\* ---------------------------------------------------- names and order
NoName == "none"
EntryPoints == {"src/a.ts", "src/b.ts"}
JsPaths == {"out/a.js"}
CssPaths == {"out/a.css"}
Paths == JsPaths \cup CssPaths
\* Array.prototype.sort() without a comparator orders strings by code unit.
NameOrder == <<"out/a.css", "out/a.js", "src/a.ts", "src/b.ts">>

Abs(x) == IF x < 0 THEN -x ELSE x

RECURSIVE SumBytes(_)
SumBytes(items) ==
  IF items = <<>> THEN 0 ELSE Head(items).bytes + SumBytes(Tail(items))

\* [...new Set(xs)].sort() for a set of names.
RECURSIVE SortFrom(_, _)
SortFrom(S, i) ==
  IF i > Len(NameOrder) THEN <<>>
  ELSE (IF NameOrder[i] \in S THEN <<NameOrder[i]>> ELSE <<>>) \o SortFrom(S, i + 1)

sort(S) == SortFrom(S, 1)

\* --------------------------------------------------------- metafiles
\* Metafile.outputs: an object, iterated by Object.entries in key order
\* (the order of the keys in the JSON file).  One element per key.
Sizes == 0..MaxBytes

Output == [path : Paths, entryPoint : EntryPoints \cup {NoName},
           bytes : Sizes, cssBundle : CssPaths \cup {NoName}]

DistinctPaths(m) == \A i, j \in 1..Len(m) : i # j => m[i].path # m[j].path

\* An output names a css bundle only when it is not itself a stylesheet.
WellFormed(m) ==
  /\ DistinctPaths(m)
  /\ \A i \in 1..Len(m) : m[i].path \in CssPaths => m[i].cssBundle = NoName

Metafiles ==
  UNION { { m \in [1..n -> Output] : WellFormed(m) } : n \in 0..Cardinality(Paths) }

\* metafile.outputs[path]
HasOutput(metafile, p) == \E i \in 1..Len(metafile) : metafile[i].path = p

OutputAt(metafile, p) ==
  metafile[CHOOSE i \in 1..Len(metafile) : metafile[i].path = p]

\* items.find(({ path }) => path === p) !== undefined
Listed(items, p) == \E i \in 1..Len(items) : items[i].path = p

Find(items, p) == items[CHOOSE i \in 1..Len(items) : items[i].path = p]

\* result[entryPoint] ?? []
ItemsOf(result, e) == IF e \in DOMAIN result THEN result[e] ELSE <<>>

\* One step of the forEach of computeSizeByEntrypoint.
AddOutput(metafile, result, output) ==
  IF output.entryPoint = NoName THEN result
  ELSE
    LET e == output.entryPoint
        pushed == Append(ItemsOf(result, e),
                         [path |-> output.path, bytes |-> output.bytes])
        css == output.cssBundle
        withCss ==
          IF /\ css # NoName
             /\ HasOutput(metafile, css)
             /\ ~Listed(pushed, css)
          THEN Append(pushed, [path |-> css, bytes |-> OutputAt(metafile, css).bytes])
          ELSE pushed
    IN [x \in (DOMAIN result) \cup {e} |-> IF x = e THEN withCss ELSE result[x]]

RECURSIVE SizeLoop(_, _, _)
SizeLoop(metafile, i, result) ==
  IF i > Len(metafile) THEN result
  ELSE SizeLoop(metafile, i + 1, AddOutput(metafile, result, metafile[i]))

EmptyResult == [x \in {} |-> <<>>]

computeSizeByEntrypoint(metafile) == SizeLoop(metafile, 1, EmptyResult)

\* ------------------------------------------------------ number formats
\* A printed number: NaN, Infinity, or a sign and a magnitude in hundredths.
Finite(negative, hundredths) == [form |-> "finite", neg |-> negative, h |-> hundredths]
NaN == [form |-> "NaN", neg |-> FALSE, h |-> 0]
Infinity == [form |-> "Infinity", neg |-> FALSE, h |-> 0]
MinusInfinity == [form |-> "Infinity", neg |-> TRUE, h |-> 0]

\* n / d rounded to the nearest integer, ties away from zero (n >= 0, d > 0).
RoundDiv(n, d) == (n \div d) + (IF 2 * (n % d) >= d THEN 1 ELSE 0)

\* const units (line 87), indexed from 0 in the source.
units == <<"byte", "kilobyte", "megabyte", "terabyte", "petabyte">>

Pow1024(i) == IF i = 0 THEN 1 ELSE IF i = 1 THEN 1024 ELSE IF i = 2 THEN 1048576 ELSE 1073741824

\* Math.floor(Math.log(bytes) / Math.log(1024)) for 0 < bytes < 2^31.
FloorLog1024(bytes) ==
  CHOOSE i \in 0..3 : Pow1024(i) <= bytes /\ (i = 3 \/ bytes < Pow1024(i + 1))

\* bytesToSize for an integer argument (isFinite(bytes) holds).
\*   bytes < 0: Math.log is NaN, unitIdx is NaN, the unit is units[0] and
\*              bytes / 1024 ** NaN is NaN;
\*   bytes = 0: unitIdx is -Infinity, the unit is units[0], the value is 0;
\*   bytes > 0: the value is bytes / 1024 ** unitIdx to at most two decimals.
bytesToSize(bytes) ==
  IF bytes < 0 THEN [num |-> NaN, unit |-> units[1]]
  ELSE IF bytes = 0 THEN [num |-> Finite(FALSE, 0), unit |-> units[1]]
  ELSE LET unitIdx == FloorLog1024(bytes)
       IN [num |-> Finite(FALSE, RoundDiv(bytes * 100, Pow1024(unitIdx))),
           unit |-> units[(IF unitIdx > Len(units) THEN Len(units) - 1 ELSE unitIdx) + 1]]

\* (((prTotal - baseTotal) / baseTotal) * 100).toFixed(2)
percentChange(baseTotal, prTotal) ==
  LET d == prTotal - baseTotal
  IN IF baseTotal = 0
     THEN (IF d = 0 THEN NaN ELSE IF d > 0 THEN Infinity ELSE MinusInfinity)
     ELSE Finite((d < 0) # (baseTotal < 0), RoundDiv(Abs(d) * 10000, Abs(baseTotal)))

\* ---------------------------------------------------------- the table
\* A cell of the table.  kind "text": a heading, a name, "n/a", "new" or
\* "deleted"; kind "size": bytesToSize(..); kind "diff": the template
\* `${bytesToSize(..)} (${percent}%)`.  sub: wrapped in <sub>..</sub>.
Cell(k, t, s, p) ==
  [kind |-> k, text |-> t, size |-> s.num, unit |-> s.unit, pct |-> p, sub |-> FALSE]

NoSize == [num |-> NaN, unit |-> ""]
TextCell(t) == Cell("text", t, NoSize, NaN)
SizeCell(bytes) == Cell("size", "", bytesToSize(bytes), NaN)
DiffCell(bytes, percent) == Cell("diff", "", bytesToSize(bytes), percent)

\* .map((str) => "<sub>" + str + "</sub>")
Sub(cell) == [cell EXCEPT !.sub = TRUE]

Row(e, p, o, n, d) == [entrypoint |-> e, path |-> p, old |-> o, new |-> n, diff |-> d]

columnHeadings ==
  Row(TextCell("Entrypoint"), TextCell("Path"), TextCell("Old size"),
      TextCell("New size"), TextCell("Diff"))

Rule ==
  Row(TextCell("---"), TextCell("---"), TextCell("---"), TextCell("---"), TextCell("---"))

\* The row of one file of an entrypoint (lines 142-163).  percent is the
\* percentChange of the enclosing entrypoint.
FileRow(baseSize, prSize, p, percent) ==
  LET inBase == Listed(baseSize, p)
      inPr == Listed(prSize, p)
      diffSizeTotal ==
        IF inBase /\ inPr THEN Find(prSize, p).bytes - Find(baseSize, p).bytes ELSE 0
  IN Row(Sub(TextCell("")),
         Sub(TextCell(p)),
         Sub(IF inBase THEN SizeCell(Find(baseSize, p).bytes) ELSE TextCell("n/a")),
         Sub(IF inPr THEN SizeCell(Find(prSize, p).bytes) ELSE TextCell("n/a")),
         Sub(IF ~inBase THEN TextCell("new")
             ELSE IF ~inPr THEN TextCell("deleted")
             ELSE DiffCell(diffSizeTotal, percent)))

PathsOf(items) == { items[i].path : i \in 1..Len(items) }

\* The rows of one entrypoint (lines 119-164).
EntrypointRows(baseSizes, prSizes, entrypoint) ==
  LET baseSize == ItemsOf(baseSizes, entrypoint)
      prSize == ItemsOf(prSizes, entrypoint)
      baseSizeTotal == SumBytes(baseSize)
      prSizeTotal == SumBytes(prSize)
      diffSizeTotal == prSizeTotal - baseSizeTotal
      percent == percentChange(baseSizeTotal, prSizeTotal)
      paths == sort(PathsOf(baseSize) \cup PathsOf(prSize))
  IN <<Row(TextCell(entrypoint), TextCell("*"), SizeCell(baseSizeTotal),
           SizeCell(prSizeTotal), DiffCell(diffSizeTotal, percent))>>
     \o [i \in 1..Len(paths) |-> FileRow(baseSize, prSize, paths[i], percent)]

RECURSIVE RowsFrom(_, _, _, _)
RowsFrom(baseSizes, prSizes, entrypoints, i) ==
  IF i > Len(entrypoints) THEN <<>>
  ELSE EntrypointRows(baseSizes, prSizes, entrypoints[i])
       \o RowsFrom(baseSizes, prSizes, entrypoints, i + 1)

\* diff: the rows of the table; the result string is these rows joined
\* as "| c1 | c2 | c3 | c4 | c5 |" lines.
diff(baseMetafile, prMetafile) ==
  LET baseSizes == computeSizeByEntrypoint(baseMetafile)
      prSizes == computeSizeByEntrypoint(prMetafile)
      entrypoints == sort((DOMAIN baseSizes) \cup (DOMAIN prSizes))
  IN <<columnHeadings, Rule>> \o RowsFrom(baseSizes, prSizes, entrypoints, 1)

\* ------------------------------------------------- files and comments
\* What fs.readFileSync + JSON.parse make of a manifest path: a metafile,
\* or the error thrown (ENOENT and the like by readFileSync, SyntaxError by
\* JSON.parse).
Parsed(m) == [ok |-> TRUE, error |-> "none", metafile |-> m]
Unreadable == [ok |-> FALSE, error |-> "ENOENT", metafile |-> <<>>]
Malformed == [ok |-> FALSE, error |-> "SyntaxError", metafile |-> <<>>]

JsOutput(e, n, css) == [path |-> "out/a.js", entryPoint |-> e, bytes |-> n, cssBundle |-> css]
CssOutput(e, n) == [path |-> "out/a.css", entryPoint |-> e, bytes |-> n, cssBundle |-> NoName]

\* The manifests a run of the program is given.
RunMetafiles ==
  { <<JsOutput("src/a.ts", 2048, "out/a.css"), CssOutput(NoName, 512)>>,
    <<JsOutput("src/a.ts", 1536, NoName)>> }

FileContents == {Unreadable, Malformed} \cup { Parsed(m) : m \in RunMetafiles }

\* A load that does not notice a failure of the PR manifest.
LoadErrorBaseOnly(baseFile, prFile) ==
  IF ~baseFile.ok THEN baseFile.error ELSE "none"

\* The error of the first of the two JSON.parse(fs.readFileSync(..)) lines
\* that throws, "none" when both manifests load.
LoadError(baseFile, prFile) ==
  IF ~baseFile.ok THEN baseFile.error
  ELSE IF ~prFile.ok THEN prFile.error
  ELSE "none"

\* A comment body: a text (a sequence of pieces) followed by a table, or no
\* body at all (comment.body is optional in the API's type).
identifier == "<!-- esbuild-bundle-size-diff-comment -->"
TokenError == "GitHub token not found; looked in env.GITHUB_TOKEN and input.github_token"

Body(t, rows) == [present |-> TRUE, text |-> t, table |-> rows]
NoBody == [present |-> FALSE, text |-> <<>>, table |-> <<>>]

\* The template literal handed to comment() by run (lines 184-188).
Message(rows) == Body(<<"\n  ", "## Bundle size diff", "\n\n  ">>, rows)

\* comment.body?.startsWith(identifier)
startsWith(body, prefix) ==
  /\ body.present
  /\ Len(body.text) >= 1
  /\ body.text[1] = prefix

\* The loop of findComment over comments.data: the id of the first comment
\* whose body starts with the identifier, 0 for null (ids are positive).
RECURSIVE findCommentFrom(_, _)
findCommentFrom(data, i) ==
  IF i > Len(data) THEN 0
  ELSE IF startsWith(data[i].body, identifier) THEN data[i].id
  ELSE findCommentFrom(data, i + 1)

\* A loop that keeps the last match instead of returning at the first.
RECURSIVE findLastFrom(_, _, _)
findLastFrom(data, i, found) ==
  IF i > Len(data) THEN found
  ELSE findLastFrom(data, i + 1,
                    IF startsWith(data[i].body, identifier) THEN data[i].id ELSE found)

findCommentLast(data) == findLastFrom(data, 1, 0)

findComment(data) == findCommentFrom(data, 1)

\* const githubToken = core.getInput("github_token") || process.env.GITHUB_TOKEN
\* getClient throws when neither is set.
getClientThrows(tokens) == tokens = {}

Pending == [state |-> "pending", error |-> "none"]
Fulfilled == [state |-> "fulfilled", error |-> "none"]
Rejected(e) == [state |-> "rejected", error |-> e]
NotCalled == [state |-> "not called", error |-> "none"]

\* ------------------------------------------------------------ state
VARIABLES
  baseMetafile,   \* diff's first argument
  prMetafile,     \* diff's second argument
  stage,          \* "input": diff not yet called; "diffed": diff has returned
  baseSizes,      \* diff's const baseSizes
  prSizes,        \* diff's const prSizes
  table,          \* the rows diff returned (resultMarkdownTable)
  argv,           \* "cli": process.argv.length >= 4; "action": otherwise
  tokens,         \* where a token is set: a subset of {"input", "env"}
  baseFile,       \* what reading and parsing the base manifest gives
  prFile,         \* what reading and parsing the PR manifest gives
  pc,             \* where the process is
  outcome,        \* the promise returned by main() or run()
  commentPromise, \* the promise returned by comment()
  message,        \* comment()'s argument
  calls,          \* the REST calls made by this process, in order
  stdout,         \* what console.log printed
  issueComments,  \* the comments of the pull request, in listed order
  issueAtStart,   \* issueComments when this process started
  nextId,         \* the id the server gives the next created comment
  runs,           \* processes started on this pull request
  cleanStart      \* the pull request held no identifier comment at first

dvars == <<baseMetafile, prMetafile, stage, baseSizes, prSizes, table>>
pvars == <<argv, tokens, baseFile, prFile, pc, outcome, commentPromise, message,
           calls, stdout, issueComments, issueAtStart, nextId, runs, cleanStart>>
vars == <<dvars, pvars>>

\* const resultMarkdownTable = diff(baseMetafile, prMetafile), with diff's
\* two locals.
DiffCall(b, p) ==
  /\ baseMetafile' = b
  /\ prMetafile' = p
  /\ baseSizes' = computeSizeByEntrypoint(b)
  /\ prSizes' = computeSizeByEntrypoint(p)
  /\ table' = diff(b, p)
  /\ stage' = "diffed"

\* ------------------------------------------- diff as a pure function
ProcessIdle ==
  /\ argv = "cli"
  /\ tokens = {}
  /\ baseFile = Unreadable
  /\ prFile = Unreadable
  /\ pc = "exit"
  /\ outcome = NotCalled
  /\ commentPromise = NotCalled
  /\ message = NoBody
  /\ calls = <<>>
  /\ stdout = <<>>
  /\ issueComments = <<>>
  /\ issueAtStart = <<>>
  /\ nextId = 1
  /\ runs = 0
  /\ cleanStart = TRUE

DiffInit ==
  /\ baseMetafile \in Metafiles
  /\ prMetafile \in Metafiles
  /\ stage = "input"
  /\ baseSizes = EmptyResult
  /\ prSizes = EmptyResult
  /\ table = <<>>
  /\ ProcessIdle

Diff ==
  /\ stage = "input"
  /\ DiffCall(baseMetafile, prMetafile)
  /\ UNCHANGED pvars

DiffNext == Diff

SpecDiff == DiffInit /\ [][DiffNext]_vars

\* ------------------------------------------------------- the program
Comment(i, b, who) == [id |-> i, body |-> b, by |-> who]

ExistingBodies == {Body(<<"LGTM">>, <<>>), Body(<<identifier, "stale">>, <<>>), NoBody}

ExistingComments ==
  UNION { { [i \in 1..n |-> Comment(i, b[i], "other")] : b \in [1..n -> ExistingBodies] }
          : n \in 0..MaxExisting }

Call(name, i, b) == [op |-> name, comment_id |-> i, body |-> b]

\* Where the token comes from: nowhere, the action's input, the environment.
TokenSources == {{}, {"input"}, {"env"}}

\* What one process is started with.
ProcessInputs ==
  /\ argv' \in {"cli", "action"}
  /\ tokens' \in TokenSources
  /\ baseFile' \in FileContents
  /\ prFile' \in FileContents

Init ==
  /\ argv \in {"cli", "action"}
  /\ tokens \in TokenSources
  /\ baseFile \in FileContents
  /\ prFile \in FileContents
  /\ issueComments \in ExistingComments
  /\ issueAtStart = issueComments
  /\ cleanStart = (findComment(issueComments) = 0)
  /\ nextId = Len(issueComments) + 1
  /\ pc = "start"
  /\ outcome = NotCalled
  /\ commentPromise = NotCalled
  /\ message = NoBody
  /\ calls = <<>>
  /\ stdout = <<>>
  /\ runs = 1
  /\ baseMetafile = <<>>
  /\ prMetafile = <<>>
  /\ stage = "input"
  /\ baseSizes = EmptyResult
  /\ prSizes = EmptyResult
  /\ table = <<>>

\* main(base, pr), lines 192-198 and 200-204: synchronous to its end.
main ==
  /\ pc = "start"
  /\ argv = "cli"
  /\ \/ /\ LoadError(baseFile, prFile) # "none"
        /\ outcome' = Rejected(LoadError(baseFile, prFile))
        /\ UNCHANGED <<dvars, stdout>>
     \/ /\ LoadError(baseFile, prFile) = "none"
        /\ DiffCall(baseFile.metafile, prFile.metafile)
        /\ stdout' = Append(stdout, table')
        /\ outcome' = Fulfilled
  /\ pc' = "exit"
  /\ UNCHANGED <<argv, tokens, baseFile, prFile, commentPromise, message, calls,
                 issueComments, issueAtStart, nextId, runs, cleanStart>>

\* run(), lines 171-189 and 205-207, with the synchronous start of the
\* comment() it calls and does not await: getClient() (line 39), then
\* findComment() up to its await of listComments (line 21).
run ==
  /\ pc = "start"
  /\ argv = "action"
  /\ \/ /\ LoadError(baseFile, prFile) # "none"
        /\ outcome' = Rejected(LoadError(baseFile, prFile))
        /\ pc' = "exit"
        /\ UNCHANGED <<dvars, commentPromise, message, calls>>
     \/ /\ LoadError(baseFile, prFile) = "none"
        /\ DiffCall(baseFile.metafile, prFile.metafile)
        /\ message' = Message(table')
        /\ outcome' = Fulfilled
        /\ \/ /\ getClientThrows(tokens)
              /\ commentPromise' = Rejected(TokenError)
              /\ pc' = "exit"
              /\ UNCHANGED calls
           \/ /\ ~getClientThrows(tokens)
              /\ commentPromise' = Pending
              /\ calls' = Append(calls, Call("listComments", 0, NoBody))
              /\ pc' = "listComments"
  /\ UNCHANGED <<argv, tokens, baseFile, prFile, stdout, issueComments,
                 issueAtStart, nextId, runs, cleanStart>>

\* The write comment() makes once findComment has returned commentId
\* (lines 42-57).
WriteCall(commentId, body) ==
  IF commentId # 0 THEN Call("updateComment", commentId, body)
  ELSE Call("createComment", 0, body)

\* listComments answers (or fails); findComment's loop runs and comment()
\* goes on to its write.
listComments ==
  /\ pc = "listComments"
  /\ \/ /\ calls' = Append(calls, WriteCall(findComment(issueComments), message))
        /\ pc' = calls'[Len(calls')].op
        /\ UNCHANGED commentPromise
     \/ /\ commentPromise' = Rejected("HttpError")
        /\ pc' = "exit"
        /\ UNCHANGED calls
  /\ UNCHANGED <<dvars, argv, tokens, baseFile, prFile, outcome, message, stdout,
                 issueComments, issueAtStart, nextId, runs, cleanStart>>

\* The server's side of PATCH /issues/comments/{comment_id}.
Updated(comments, i, b) ==
  [k \in 1..Len(comments) |->
     IF comments[k].id = i THEN [comments[k] EXCEPT !.body = b] ELSE comments[k]]

updateComment ==
  /\ pc = "updateComment"
  /\ \/ /\ issueComments' =
             Updated(issueComments, calls[Len(calls)].comment_id, calls[Len(calls)].body)
        /\ commentPromise' = Fulfilled
     \/ /\ commentPromise' = Rejected("HttpError")
        /\ UNCHANGED issueComments
  /\ pc' = "exit"
  /\ UNCHANGED <<dvars, argv, tokens, baseFile, prFile, outcome, message, calls,
                 stdout, issueAtStart, nextId, runs, cleanStart>>

createComment ==
  /\ pc = "createComment"
  /\ \/ /\ issueComments' =
             Append(issueComments, Comment(nextId, calls[Len(calls)].body, "tool"))
        /\ nextId' = nextId + 1
        /\ commentPromise' = Fulfilled
     \/ /\ commentPromise' = Rejected("HttpError")
        /\ UNCHANGED <<issueComments, nextId>>
  /\ pc' = "exit"
  /\ UNCHANGED <<dvars, argv, tokens, baseFile, prFile, outcome, message, calls,
                 stdout, issueAtStart, runs, cleanStart>>

\* The workflow runs again on the same pull request: a fresh process.
NextRun ==
  /\ pc = "exit"
  /\ runs < MaxRuns
  /\ ProcessInputs
  /\ runs' = runs + 1
  /\ pc' = "start"
  /\ outcome' = NotCalled
  /\ commentPromise' = NotCalled
  /\ message' = NoBody
  /\ calls' = <<>>
  /\ stdout' = <<>>
  /\ issueAtStart' = issueComments
  /\ baseMetafile' = <<>>
  /\ prMetafile' = <<>>
  /\ stage' = "input"
  /\ baseSizes' = EmptyResult
  /\ prSizes' = EmptyResult
  /\ table' = <<>>
  /\ UNCHANGED <<issueComments, nextId, cleanStart>>

Next == main \/ run \/ listComments \/ updateComment \/ createComment \/ NextRun

Spec == Init /\ [][Next]_vars

\* ===================================================== what is checked
\* ------------------------------------------- reading the table back
IsSummary(row) == ~row.entrypoint.sub /\ row.path = TextCell("*")
IsFileRow(row) == row.entrypoint.sub

\* The index of the summary row of entrypoint e.
SummaryIndex(t, e) ==
  CHOOSE i \in 1..Len(t) : IsSummary(t[i]) /\ t[i].entrypoint = TextCell(e)

HasSummary(t, e) ==
  \E i \in 1..Len(t) : IsSummary(t[i]) /\ t[i].entrypoint = TextCell(e)

\* The file rows printed under the summary row of e, up to the next summary.
FileRowsOf(t, e) ==
  { j \in 1..Len(t) :
      /\ IsFileRow(t[j])
      /\ j > SummaryIndex(t, e)
      /\ \A k \in (SummaryIndex(t, e) + 1)..j : IsFileRow(t[k]) }

RowsOf(t, e) == {SummaryIndex(t, e)} \cup FileRowsOf(t, e)

IsMark(cell, word) == cell.kind = "text" /\ cell.text = word

\* ------------------------------------- what the manifests themselves say
Declares(m, e) == { i \in 1..Len(m) : m[i].entryPoint = e }

Present(m, e) == Declares(m, e) # {}

\* The files of entrypoint e: the outputs that declare it and the existing
\* css bundles of those outputs.
FilesOf(m, e) ==
  { m[i].path : i \in Declares(m, e) }
  \cup { m[i].cssBundle : i \in { k \in Declares(m, e) :
                                   m[k].cssBundle # NoName /\ HasOutput(m, m[k].cssBundle) } }

RECURSIVE SumOver(_, _)
SumOver(m, S) ==
  IF S = {} THEN 0
  ELSE LET p == CHOOSE x \in S : TRUE
       IN OutputAt(m, p).bytes + SumOver(m, S \ {p})

TotalOf(m, e) == SumOver(m, FilesOf(m, e))

Signed(p) == IF p.neg THEN -p.h ELSE p.h

\* p is d / old * 100 to two decimal places (old > 0): no hundredth is nearer.
IsPercentOf(p, d, old) ==
  /\ p.form = "finite"
  /\ 2 * Abs(Signed(p) * old - d * 10000) <= old

NoDoubleListing(items) ==
  \A i, j \in 1..Len(items) : i # j => items[i].path # items[j].path

Reorderings(m) ==
  { [i \in 1..Len(m) |-> m[f[i]]] : f \in Permutations(1..Len(m)) }

ListedTotal(sizes, e) == SumBytes(ItemsOf(sizes, e))

\* C3: for every entrypoint whose old total is positive, the percentage of
\* its summary row is (new - old) / old * 100 to two decimals, old and new
\* being the sums of the sizes of the entrypoint's files in the base and in
\* the PR manifest.
C3_SummaryPercent ==
  stage = "diffed" =>
    \A e \in EntryPoints :
      (HasSummary(table, e) /\ TotalOf(baseMetafile, e) > 0) =>
        LET cell == table[SummaryIndex(table, e)].diff
        IN /\ cell.kind = "diff"
           /\ IsPercentOf(cell.pct,
                          TotalOf(prMetafile, e) - TotalOf(baseMetafile, e),
                          TotalOf(baseMetafile, e))

\* The same percentage against the totals of the lists diff sums (its Old
\* size and New size cells): this part of C3 holds.
SummaryPercentOfListedTotals ==
  stage = "diffed" =>
    \A e \in EntryPoints :
      (HasSummary(table, e) /\ ListedTotal(baseSizes, e) > 0) =>
        LET cell == table[SummaryIndex(table, e)].diff
        IN /\ cell.kind = "diff"
           /\ IsPercentOf(cell.pct,
                          ListedTotal(prSizes, e) - ListedTotal(baseSizes, e),
                          ListedTotal(baseSizes, e))

\* C4: a file row whose file is listed in both manifests prints the
\* percentage (new - old) / old * 100 of that file's own two sizes (stated
\* for the rows whose old size is positive, where the quotient is a number).
C4_FileRowPercent ==
  stage = "diffed" =>
    \A e \in EntryPoints :
      HasSummary(table, e) =>
        \A j \in FileRowsOf(table, e) :
          (/\ table[j].old.kind = "size"
           /\ table[j].new.kind = "size"
           /\ OutputAt(baseMetafile, table[j].path.text).bytes > 0) =>
            /\ table[j].diff.kind = "diff"
            /\ IsPercentOf(table[j].diff.pct,
                           OutputAt(prMetafile, table[j].path.text).bytes
                             - OutputAt(baseMetafile, table[j].path.text).bytes,
                           OutputAt(baseMetafile, table[j].path.text).bytes)

\* C5: diff(m, m) prints 0.00% in every summary row and every file row, and
\* marks no row "new" or "deleted", zero sizes included.
C5_SelfDiffIsZero ==
  (stage = "diffed" /\ baseMetafile = prMetafile) =>
    \A i \in 3..Len(table) :
      /\ table[i].diff.kind = "diff"
      /\ table[i].diff.pct = Finite(FALSE, 0)

\* C6: every row of an entrypoint only in the PR manifest has the Diff cell
\* "new", every row of an entrypoint only in the base manifest has the Diff
\* cell "deleted", and no row of an entrypoint in both with the same files
\* is marked.
C6_NewAndDeleted ==
  stage = "diffed" =>
    \A e \in EntryPoints :
      /\ (Present(prMetafile, e) /\ ~Present(baseMetafile, e)) =>
           \A i \in RowsOf(table, e) : IsMark(table[i].diff, "new")
      /\ (Present(baseMetafile, e) /\ ~Present(prMetafile, e)) =>
           \A i \in RowsOf(table, e) : IsMark(table[i].diff, "deleted")
      /\ (/\ Present(baseMetafile, e)
          /\ Present(prMetafile, e)
          /\ FilesOf(baseMetafile, e) = FilesOf(prMetafile, e)) =>
           \A i \in RowsOf(table, e) :
             ~IsMark(table[i].diff, "new") /\ ~IsMark(table[i].diff, "deleted")

\* C9: the size in the Diff cell of a summary row renders new total - old
\* total as a number with a unit, a decrease of d bytes as the size d.
C9_DiffSizeRendered ==
  stage = "diffed" =>
    \A e \in EntryPoints :
      HasSummary(table, e) =>
        LET cell == table[SummaryIndex(table, e)].diff
            d == ListedTotal(prSizes, e) - ListedTotal(baseSizes, e)
        IN /\ cell.kind = "diff"
           /\ cell.size.form = "finite"
           /\ [num |-> cell.size, unit |-> cell.unit] = bytesToSize(Abs(d))

\* C10: computeSizeByEntrypoint lists no path twice under an entrypoint, so
\* the total is the sum over the entrypoint's distinct files, whatever the
\* order of the manifest's keys.
C10_EachFileOnce ==
  stage = "diffed" =>
    \A e \in DOMAIN baseSizes :
      /\ NoDoubleListing(baseSizes[e])
      /\ SumBytes(baseSizes[e]) = TotalOf(baseMetafile, e)
      /\ \A m \in Reorderings(baseMetafile) :
           ListedTotal(computeSizeByEntrypoint(m), e) = SumBytes(baseSizes[e])

\* ------------------------------------------------ the program's runs
Count(name) == Cardinality({ i \in 1..Len(calls) : calls[i].op = name })

Writes == Count("updateComment") + Count("createComment")

Marked(comments) ==
  { k \in 1..Len(comments) : startsWith(comments[k].body, identifier) }

\* The first comment, in listed order, whose body starts with the identifier.
FirstMarked(comments) ==
  CHOOSE k \in Marked(comments) : \A j \in Marked(comments) : k <= j

ByTool(comments) == { k \in 1..Len(comments) : comments[k].by = "tool" }

\* C1: on a pull request that held no identifier comment at first, after
\* any number of completed GitHub Actions runs the pull request holds
\* exactly one comment written by the tool, with the latest run's message.
C1_OneCommentAfterRuns ==
  (cleanStart /\ pc = "exit" /\ commentPromise = Fulfilled) =>
    /\ Cardinality(ByTool(issueComments)) = 1
    /\ \A k \in ByTool(issueComments) : issueComments[k].body = message

\* C2: with a token, comment() makes one listComments call and, after it
\* has returned, one write: updateComment on the first listed comment whose
\* body starts with the identifier when there is one (and no
\* createComment), createComment otherwise (and no updateComment); every
\* other comment stays as it was.
C2_OneListThenOneWrite ==
  /\ Count("listComments") <= 1
  /\ Writes <= 1
  /\ commentPromise.state \in {"pending", "fulfilled"} =>
       /\ Count("listComments") = 1
       /\ calls[1].op = "listComments"
  /\ pc \in {"updateComment", "createComment"} => Writes = 1
  /\ Writes = 1 =>
       /\ Len(calls) = 2
       /\ calls[1].op = "listComments"
       /\ IF Marked(issueAtStart) # {}
          THEN calls[2] = Call("updateComment",
                               issueAtStart[FirstMarked(issueAtStart)].id, message)
          ELSE calls[2] = Call("createComment", 0, message)
  /\ commentPromise = Fulfilled =>
       /\ Writes = 1
       /\ IF Marked(issueAtStart) # {}
          THEN /\ Len(issueComments) = Len(issueAtStart)
               /\ \A k \in 1..Len(issueAtStart) :
                    issueComments[k] =
                      IF k = FirstMarked(issueAtStart)
                      THEN [issueAtStart[k] EXCEPT !.body = message]
                      ELSE issueAtStart[k]
          ELSE /\ Len(issueComments) = Len(issueAtStart) + 1
               /\ SubSeq(issueComments, 1, Len(issueAtStart)) = issueAtStart
               /\ issueComments[Len(issueComments)].body = message
  /\ commentPromise # Fulfilled => issueComments = issueAtStart

\* A run has updated the first of two comments that start with the identifier.
C2_UpdatedFirstOfTwo ==
  /\ pc = "exit"
  /\ commentPromise = Fulfilled
  /\ Len(calls) = 2
  /\ calls[2].op = "updateComment"
  /\ Cardinality(Marked(issueAtStart)) >= 2

\* C7: without a token a GitHub Actions run ends in the error "GitHub token
\* not found" as the outcome of run(), before any REST call.
C7_TokenErrorIsRunOutcome ==
  (/\ argv = "action"
   /\ tokens = {}
   /\ baseFile.ok
   /\ prFile.ok
   /\ pc = "exit") =>
    /\ outcome = Rejected(TokenError)
    /\ calls = <<>>

\* C8: when reading or parsing either manifest fails, in either mode, that
\* failure is the outcome of main()/run() and nothing is delivered: nothing
\* printed, no comment listed, created or updated.
C8_LoadFailureIsOutcome ==
  ((~baseFile.ok \/ ~prFile.ok) /\ pc # "start") =>
    /\ pc = "exit"
    /\ outcome.state = "rejected"
    /\ outcome.error = (IF ~baseFile.ok THEN baseFile.error ELSE prFile.error)
    /\ stdout = <<>>
    /\ calls = <<>>
    /\ commentPromise = NotCalled
    /\ issueComments = issueAtStart
    /\ stage = "input"

\* A GitHub Actions run with a token whose PR manifest does not parse has ended.
C8_ActionRunWithMalformedPr ==
  /\ argv = "action"
  /\ tokens # {}
  /\ baseFile.ok
  /\ prFile = Malformed
  /\ pc = "exit"
  /\ outcome = Rejected("SyntaxError")
====
